---- MODULE Spec2Model ----
(***************************************************************************)
(* A model of the home network monitor (src/monitor/network_monitor.py):   *)
(* the sampler (collect_network_metrics), the alert engine (check_alerts,  *)
(* _send_alert and the four notification channels) and the main loop that  *)
(* runs one monitoring cycle per interval.                                 *)
(*                                                                         *)
(* Python values are modelled as follows.  A str is a TLA+ string (TLC     *)
(* evaluates Len, SubSeq and \o on strings, so startswith, "in" and        *)
(* f-string concatenation are computed, not assumed).  A dict whose        *)
(* iteration order matters (the target groups, a sample's dimensions) is   *)
(* a sequence of <<key, value>> pairs with unique keys; any other dict is  *)
(* a function whose DOMAIN is its key set, so that a missing key (a        *)
(* KeyError, or the default of .get) is a key outside DOMAIN.  An Optional *)
(* value is a sequence of length at most one (<<>> is None).  Latencies    *)
(* are whole milliseconds; the instants of datetime.now() are seconds.     *)
(***************************************************************************)
EXTENDS Integers, Sequences, FiniteSets, TLC

VARIABLES
    config,            \* self.config, as loaded by _load_config
    aws_enabled,       \* self.aws_enabled
    metrics_cache,     \* self.metrics_cache
    last_alert_times,  \* self.last_alert_times
    pc,                \* position of main(): "cycle", "sleep" or "crashed"
    probes,            \* what the probes of the last collection answered
    collected,         \* what the last collect_network_metrics call returned
    current_time,      \* current_time of the last check_alerts call (<<>>: none yet)
    alert_log,         \* one entry per sample the last check_alerts call evaluated
    cycle_result,      \* how the last run_monitoring_cycle ended
    push,              \* what the last send_to_cloudwatch call did, and the
                       \* sink call that raised during it (fails_at, 0: none)
    steps,             \* the steps of the last run_monitoring_cycle, in order
    server,            \* the metrics server thread
    response           \* what the last do_GET sent (<<>>: no request yet)

vars == <<config, aws_enabled, metrics_cache, last_alert_times, pc,
          probes, collected, current_time, alert_log, cycle_result,
          push, steps, server, response>>

---------------------------------------------------------------------------
(* Python helpers *)

None == <<>>
Some(v) == <<v>>

\* d.get(k, default) of a dict modelled as a function
Get(d, k, default) == IF k \in DOMAIN d THEN d[k] ELSE default

\* the dict d without key k
Drop(d, k) == [x \in DOMAIN d \ {k} |-> d[x]]

\* keys of an ordered dict
Keys(d) == {d[i][1] : i \in DOMAIN d}

\* {**a, **b} on ordered dicts: a key of b already in a keeps its place and
\* takes b's value, a new key is appended
RECURSIVE DictMerge(_, _)
DictMerge(a, b) ==
    IF b = <<>> THEN a
    ELSE LET k == b[1][1]
             v == b[1][2]
             upd == IF k \in Keys(a)
                    THEN [i \in DOMAIN a |-> IF a[i][1] = k THEN <<k, v>> ELSE a[i]]
                    ELSE Append(a, <<k, v>>)
         IN DictMerge(upd, Tail(b))

\* s.startswith(p)
StartsWith(s, p) == Len(s) >= Len(p) /\ SubSeq(s, 1, Len(p)) = p

\* t in s, for strings
Contains(s, t) == \E i \in 1..(Len(s) - Len(t) + 1) : SubSeq(s, i, i + Len(t) - 1) = t

---------------------------------------------------------------------------
(* Configurations: the result of yaml.safe_load, which _load_config        *)
(* returns unvalidated.                                                    *)

TargetsLan == [internal   |-> << <<"lan_gateway", "192.0.2.1">> >>,
               internet   |-> <<>>,
               work_proxy |-> <<>>]

TargetsInternet == [internal   |-> <<>>,
                    internet   |-> << <<"cloudflare_primary", "1.1.1.1">> >>,
                    work_proxy |-> <<>>]

\* an internet target whose name contains the internal target's name
TargetsLanSub == [internal   |-> << <<"lan_gateway", "192.0.2.1">> >>,
                  internet   |-> << <<"vlan_gateway", "198.51.100.7">> >>,
                  work_proxy |-> <<>>]

\* an internet target whose name contains the work-proxy target's name
TargetsWorkSub == [internal   |-> <<>>,
                   internet   |-> << <<"work_proxy_check", "203.0.113.9">> >>,
                   work_proxy |-> << <<"work_proxy", "10.0.0.5">> >>]

\* one name configured in two groups: the groups are merged by name
TargetsDup == [internal   |-> << <<"lan_gateway", "192.0.2.1">> >>,
               internet   |-> << <<"lan_gateway", "192.0.2.254">> >>,
               work_proxy |-> <<>>]

ThresholdsNone == <<>>
ThresholdsLan == [lan_warning |-> 50, lan_critical |-> 200]
ThresholdsLanCritical == [lan_critical |-> 100]
ThresholdsLanEqual == [lan_warning |-> 75, lan_critical |-> 150]
ThresholdsInternet == [internet_critical |-> 2000]
ThresholdsWork == [work_warning |-> 100, work_critical |-> 1000]

ChannelNames == <<"email", "sms", "slack", "webhook">>

ChannelsAll == [email   |-> [enabled |-> TRUE, address |-> "ops@example.org"],
                sms     |-> [enabled |-> TRUE, phone_number |-> "+15550100"],
                slack   |-> [enabled |-> TRUE, webhook_url |-> "https://hooks.example.org/s"],
                webhook |-> [enabled |-> TRUE, url |-> "https://hooks.example.org/w"]]

\* no channel sub-key at all
ChannelsNone == <<>>

\* a disabled channel, a channel without its enabled key, a channel without
\* its endpoint, and one complete channel
ChannelsMixed == [email   |-> [enabled |-> FALSE, address |-> "ops@example.org"],
                  sms     |-> [phone_number |-> "+15550100"],
                  slack   |-> [enabled |-> TRUE],
                  webhook |-> [enabled |-> TRUE, url |-> "https://hooks.example.org/w"]]

MakeConfig(targets, thresholds, cooldown, channels, enabled) ==
    [targets    |-> targets,
     thresholds |-> [latency |-> thresholds],
     alerts     |-> [enabled |-> enabled, cooldown_minutes |-> cooldown,
                     channels |-> channels],
     intervals  |-> [ping_check |-> 30],
     aws        |-> [region |-> "us-east-1", namespace |-> "HomeNetwork"]]

BaseConfig == MakeConfig(TargetsLan, ThresholdsLan, 5, ChannelsAll, TRUE)

\* cfg without the key path[2] of its section path[1]
Without(cfg, path) == [cfg EXCEPT ![path[1]] = Drop(cfg[path[1]], path[2])]

\* the keys the code reads with [] (a missing one is a KeyError)
RequiredKeys == { <<"targets", "internet">>, <<"thresholds", "latency">>,
                  <<"alerts", "enabled">>, <<"alerts", "cooldown_minutes">>,
                  <<"alerts", "channels">>, <<"intervals", "ping_check">>,
                  <<"aws", "region">> }

WellFormedConfigs ==
    { BaseConfig,
      MakeConfig(TargetsLan, ThresholdsNone, 5, ChannelsAll, TRUE),
      MakeConfig(TargetsLan, ThresholdsLanCritical, 5, ChannelsMixed, TRUE),
      MakeConfig(TargetsLan, ThresholdsLanEqual, 2, ChannelsNone, TRUE),
      MakeConfig(TargetsLan, ThresholdsLan, 5, ChannelsAll, FALSE),
      MakeConfig(TargetsInternet, ThresholdsLan, 5, ChannelsMixed, TRUE),
      MakeConfig(TargetsInternet, ThresholdsInternet, 2, ChannelsAll, TRUE),
      MakeConfig(TargetsDup, ThresholdsLan, 5, ChannelsNone, TRUE),
      MakeConfig(TargetsLanSub, ThresholdsLan, 5, ChannelsAll, TRUE),
      MakeConfig(TargetsWorkSub, ThresholdsWork, 5, ChannelsMixed, TRUE) }

MalformedConfigs == { Without(BaseConfig, p) : p \in RequiredKeys }

\* target names with an upper-case letter, a hyphen and a dot
TargetsOdd == [internal   |-> << <<"Home-Router", "192.0.2.1">> >>,
               internet   |-> << <<"dns.google", "8.8.8.8">> >>,
               work_proxy |-> <<>>]

\* the configurations of the runs that interleave the server thread
ServerConfigs ==
    { MakeConfig(TargetsOdd, ThresholdsNone, 5, ChannelsNone, FALSE),
      MakeConfig(TargetsLan, ThresholdsLanCritical, 5, ChannelsNone, TRUE) }

ConfigChoices == WellFormedConfigs \cup MalformedConfigs

\* every target name of a configuration
TargetNames ==
    UNION { UNION { Keys(cfg.targets[g]) : g \in DOMAIN cfg.targets } :
            cfg \in ConfigChoices \cup ServerConfigs }

SystemKeys == {"cpu_percent", "memory_percent", "disk_percent", "memory_available_mb"}

\* every metric name a collection can produce
MetricNames ==
    {"network_latency_" \o n : n \in TargetNames}
    \cup {"network_availability_" \o n : n \in TargetNames}
    \cup {"dns_lookup_time"}
    \cup {"system_" \o k : k \in SystemKeys}

\* StartsWith and Contains on the strings of the model, tabulated once as
\* enumerated sets of pairs (TLC converts a string to a sequence at every
\* SubSeq, and evaluates a function or a filtered set lazily)
StartsWithPairs ==
    {sp : sp \in {x \in MetricNames \X {"network_latency_", "network_availability_"} :
                      StartsWith(x[1], x[2])}}

ContainsPairs ==
    {st : st \in {x \in (MetricNames \cup SystemKeys) \X (TargetNames \cup {"percent"}) :
                      Contains(x[1], x[2])}}

---------------------------------------------------------------------------
(* The environment: what one probe call can answer.                        *)

\* ping3.ping answers a delay in seconds (here in whole microseconds), None
\* on a timeout and False on an error (unknown host, unreachable), or raises
PingReplyMicros == {75000, 150000, 600000, 1001000}

PingOutcomes == {[kind |-> "reply", us |-> u] : u \in PingReplyMicros}
                \cup {[kind |-> "timeout"], [kind |-> "error"], [kind |-> "exception"]}

\* the answers the monitoring cycles below draw from, one per batch they can
\* give to the alert engine: a reply, or no reply
CyclePingOutcomes == {o \in PingOutcomes : o.kind \in {"reply", "timeout"}}

\* socket.gethostbyname returns after some time or raises
DnsOutcomes == {[kind |-> "resolved", us |-> 2000000], [kind |-> "exception"]}

\* psutil answers the four readings or raises
SystemOutcomes == {[kind |-> "ok", cpu |-> 99, memory |-> 50, disk |-> 70,
                    available |-> 1073741824],
                   [kind |-> "exception"]}

\* datetime.now(timezone.utc), seconds since the epoch
Timestamps == {1000}

\* datetime.now() of check_alerts, in seconds: read once per evaluation
Times == {0, 120, 360}

---------------------------------------------------------------------------
(* Sampler *)

\* result * 1000 on a delay in seconds
SecondsToMs(us) == (us * 1000) \div 1000000

\* ping_target: Optional latency in ms.  False is not None, and
\* False * 1000 is 0
PingTarget(o) ==
    CASE o.kind = "exception" -> None
      [] o.kind = "timeout"   -> None
      [] o.kind = "error"     -> Some(0)
      [] o.kind = "reply"     -> Some(SecondsToMs(o.us))

\* dns_lookup_time: Optional time in ms
DnsLookupTime(o) ==
    IF o.kind = "exception" THEN None ELSE Some(SecondsToMs(o.us))

\* get_system_metrics: an ordered dict, empty when a reading raised
GetSystemMetrics(o) ==
    IF o.kind = "exception" THEN <<>>
    ELSE << <<"cpu_percent", o.cpu>>,
            <<"memory_percent", o.memory>>,
            <<"disk_percent", o.disk>>,
            <<"memory_available_mb", o.available \div (1024 * 1024)>> >>

MetricData(name, value, unit, timestamp, dimensions) ==
    [name |-> name, value |-> value, unit |-> unit, timestamp |-> timestamp,
     dimensions |-> dimensions]

TestDomains == <<"google.com", "cloudflare.com", "amazon.com">>

\* the samples of one target (lines 137-163)
TargetSamples(target_name, target_address, o, timestamp) ==
    LET latency == PingTarget(o)
        dims == << <<"target", target_address>>, <<"target_name", target_name>> >>
    IN IF latency /= None
       THEN << MetricData("network_latency_" \o target_name, latency[1],
                          "Milliseconds", timestamp, dims),
               MetricData("network_availability_" \o target_name, 1,
                          "Count", timestamp, dims) >>
       ELSE << MetricData("network_availability_" \o target_name, 0,
                          "Count", timestamp, dims) >>

RECURSIVE PingAll(_, _, _)
PingAll(all_targets, pings, timestamp) ==
    IF all_targets = <<>> THEN <<>>
    ELSE TargetSamples(all_targets[1][1], all_targets[1][2],
                       pings[all_targets[1][1]], timestamp)
         \o PingAll(Tail(all_targets), pings, timestamp)

RECURSIVE DnsAll(_, _, _)
DnsAll(domains, dns, timestamp) ==
    IF domains = <<>> THEN <<>>
    ELSE LET dns_time == DnsLookupTime(dns[domains[1]])
         IN (IF dns_time /= None
             THEN << MetricData("dns_lookup_time", dns_time[1], "Milliseconds",
                                timestamp, << <<"domain", domains[1]>> >>) >>
             ELSE <<>>)
            \o DnsAll(Tail(domains), dns, timestamp)

RECURSIVE SystemAll(_, _)
SystemAll(sys_metrics, timestamp) ==
    IF sys_metrics = <<>> THEN <<>>
    ELSE << MetricData("system_" \o sys_metrics[1][1], sys_metrics[1][2],
                       IF <<sys_metrics[1][1], "percent">> \in ContainsPairs
                       THEN "Percent" ELSE "Count",
                       timestamp, None) >>
         \o SystemAll(Tail(sys_metrics), timestamp)

\* the merged target dict of lines 130-134
AllTargets(cfg) ==
    DictMerge(DictMerge(cfg.targets.internal, cfg.targets.internet),
              cfg.targets.work_proxy)

TargetGroupsPresent(cfg) ==
    {"internal", "internet", "work_proxy"} \subseteq DOMAIN cfg.targets

\* variant: collect with a ping_target that lets the exception of ping3 out
CollectNetworkMetricsUnguarded(cfg, pr) ==
    IF ~TargetGroupsPresent(cfg)
    THEN [raised |-> TRUE, metrics |-> <<>>]
    ELSE IF \E n \in DOMAIN pr.pings : pr.pings[n].kind = "exception"
    THEN [raised |-> TRUE, metrics |-> <<>>]
    ELSE [raised |-> FALSE,
          metrics |-> PingAll(AllTargets(cfg), pr.pings, pr.timestamp)
                      \o DnsAll(TestDomains, pr.dns, pr.timestamp)
                      \o SystemAll(GetSystemMetrics(pr.system), pr.timestamp)]

\* collect_network_metrics: raises the KeyError of a missing target group,
\* else returns the batch
CollectNetworkMetrics(cfg, pr) ==
    IF ~TargetGroupsPresent(cfg)
    THEN [raised |-> TRUE, metrics |-> <<>>]
    ELSE [raised |-> FALSE,
          metrics |-> PingAll(AllTargets(cfg), pr.pings, pr.timestamp)
                      \o DnsAll(TestDomains, pr.dns, pr.timestamp)
                      \o SystemAll(GetSystemMetrics(pr.system), pr.timestamp)]

\* the target names a collection pings (none when collect raises first)
ProbedNames(cfg) ==
    IF TargetGroupsPresent(cfg) THEN Keys(AllTargets(cfg)) ELSE {}

\* every way the probes of one collection can answer
AllProbeChoices(cfg) ==
    [pings : [ProbedNames(cfg) -> PingOutcomes],
     dns : [{TestDomains[i] : i \in DOMAIN TestDomains} -> DnsOutcomes],
     system : SystemOutcomes,
     timestamp : Timestamps]

\* the answers the monitoring cycles draw from: DNS and the system readings
\* succeed, so that every batch carries dns_lookup_time and system_* samples
CycleProbeChoices(cfg) ==
    [pings : [ProbedNames(cfg) -> CyclePingOutcomes],
     dns : [{TestDomains[i] : i \in DOMAIN TestDomains}
            -> {o \in DnsOutcomes : o.kind = "resolved"}],
     system : {o \in SystemOutcomes : o.kind = "ok"},
     timestamp : Timestamps]

---------------------------------------------------------------------------
(* Alert engine *)

\* _get_target_type: substring tests of the group's target names against
\* the whole metric name
GetTargetType(cfg, metric_name) ==
    IF \E target \in Keys(cfg.targets.internal) : <<metric_name, target>> \in ContainsPairs
    THEN "lan"
    ELSE IF \E target \in Keys(cfg.targets.work_proxy) :
                <<metric_name, target>> \in ContainsPairs
    THEN "work"
    ELSE "internet"

\* {value:.1f} of a whole number of milliseconds
Format1f(value) == ToString(value) \o ".0"

\* the notification channels: each catches what its delivery raises and
\* returns normally.  delivered: the message reached the sink.  failing is
\* the set of channels whose sink call raises during this evaluation.
\* variant: the email channel without its try/except, so that what the sink
\* raises leaves the method
SendEmailAlertUncaught(cfg, aws, failing) ==
    IF ~aws THEN [raised |-> FALSE, delivered |-> FALSE]
    ELSE [raised |-> "email" \in failing,
          delivered |-> /\ "address" \in DOMAIN cfg.alerts.channels.email
                        /\ "email" \notin failing]

SendEmailAlert(cfg, aws, failing) ==
    IF ~aws THEN [raised |-> FALSE, delivered |-> FALSE]
    ELSE [raised |-> FALSE,
          delivered |-> /\ "address" \in DOMAIN cfg.alerts.channels.email
                        /\ "email" \notin failing]

SendSmsAlert(cfg, aws, failing) ==
    IF ~aws THEN [raised |-> FALSE, delivered |-> FALSE]
    ELSE [raised |-> FALSE,
          delivered |-> /\ "phone_number" \in DOMAIN cfg.alerts.channels.sms
                        /\ "sms" \notin failing]

SendSlackAlert(cfg, aws, failing) ==
    [raised |-> FALSE,
     delivered |-> /\ "webhook_url" \in DOMAIN cfg.alerts.channels.slack
                   /\ "slack" \notin failing]

SendWebhookAlert(cfg, aws, failing) ==
    [raised |-> FALSE,
     delivered |-> /\ "url" \in DOMAIN cfg.alerts.channels.webhook
                   /\ "webhook" \notin failing]

SendChannel(ch, cfg, aws, failing) ==
    CASE ch = "email"   -> SendEmailAlert(cfg, aws, failing)
      [] ch = "sms"     -> SendSmsAlert(cfg, aws, failing)
      [] ch = "slack"   -> SendSlackAlert(cfg, aws, failing)
      [] ch = "webhook" -> SendWebhookAlert(cfg, aws, failing)

\* channels.get(ch, {}).get('enabled'), as a truth value
ChannelEnabled(channels, ch) ==
    Get(Get(channels, ch, <<>>), "enabled", FALSE)

\* the try block of _send_alert (lines 303-328) from channel names[i] on.
\* acc.trace lists, in order, what the call has done so far; a channel that
\* raised ends the block in its except clause.
RECURSIVE FanOut(_, _, _, _, _, _)
FanOut(cfg, aws, failing, names, i, acc) ==
    IF i > Len(names) THEN acc
    ELSE IF ~ChannelEnabled(cfg.alerts.channels, names[i])
    THEN FanOut(cfg, aws, failing, names, i + 1, acc)
    ELSE LET r == SendChannel(names[i], cfg, aws, failing)
             invoked == Append(acc.trace, names[i])
         IN IF r.raised
            THEN [acc EXCEPT !.trace = invoked]
            ELSE FanOut(cfg, aws, failing, names, i + 1,
                        [trace |-> invoked,
                         alert_sent |-> TRUE,
                         delivered |-> acc.delivered
                                       \cup (IF r.delivered THEN {names[i]} ELSE {})])

\* variant: one cooldown per target, shared by its latency key and its
\* availability key
InCooldownByTarget(lat, metric_key, now, cooldown_seconds) ==
    \E k \in DOMAIN lat :
        /\ \E t \in TargetNames :
              {k, metric_key} \subseteq {"network_latency_" \o t,
                                        "network_availability_" \o t}
        /\ now - lat[k] < cooldown_seconds

\* variant: the cooldown test with <= for <
InCooldownInclusive(lat, metric_key, now, cooldown_seconds) ==
    /\ metric_key \in DOMAIN lat
    /\ now - lat[metric_key] <= cooldown_seconds

\* the cooldown test of lines 292-294
InCooldown(lat, metric_key, now, cooldown_seconds) ==
    /\ metric_key \in DOMAIN lat
    /\ now - lat[metric_key] < cooldown_seconds

\* self.last_alert_times[metric_key] = current_time
RecordAlert(lat, metric_key, now) ==
    [k \in DOMAIN lat \cup {metric_key} |-> IF k = metric_key THEN now ELSE lat[k]]

\* variant: _send_alert recording the alert time after the fan-out, and only
\* when a channel was invoked without raising
SendAlertRecordAfter(cfg, aws, lat, metric_key, now, cooldown_seconds, failing) ==
    IF InCooldown(lat, metric_key, now, cooldown_seconds)
    THEN [lat |-> lat, gated |-> TRUE, raised |-> FALSE, trace |-> <<>>,
          alert_sent |-> FALSE, delivered |-> {}]
    ELSE IF "channels" \notin DOMAIN cfg.alerts
    THEN [lat |-> lat, gated |-> FALSE, raised |-> TRUE,
          trace |-> <<>>, alert_sent |-> FALSE, delivered |-> {}]
    ELSE LET f == FanOut(cfg, aws, failing, ChannelNames, 1,
                         [trace |-> <<>>, alert_sent |-> FALSE, delivered |-> {}])
         IN [lat |-> IF f.delivered /= {} THEN RecordAlert(lat, metric_key, now)
                     ELSE lat,
             gated |-> FALSE, raised |-> FALSE,
             trace |-> IF f.delivered /= {} THEN Append(f.trace, "record")
                       ELSE f.trace,
             alert_sent |-> f.alert_sent, delivered |-> f.delivered]

\* _send_alert.  gated: the cooldown test returned early.  trace: "record"
\* for the update of last_alert_times, then the channels invoked, in order.
\* raised: config['alerts']['channels'] is a KeyError.
SendAlert(cfg, aws, lat, metric_key, now, cooldown_seconds, failing) ==
    IF InCooldown(lat, metric_key, now, cooldown_seconds)
    THEN [lat |-> lat, gated |-> TRUE, raised |-> FALSE, trace |-> <<>>,
          alert_sent |-> FALSE, delivered |-> {}]
    ELSE LET lat2 == RecordAlert(lat, metric_key, now)
         IN IF "channels" \notin DOMAIN cfg.alerts
            THEN [lat |-> lat2, gated |-> FALSE, raised |-> TRUE,
                  trace |-> <<"record">>, alert_sent |-> FALSE, delivered |-> {}]
            ELSE LET f == FanOut(cfg, aws, failing, ChannelNames, 1,
                                 [trace |-> <<"record">>, alert_sent |-> FALSE,
                                  delivered |-> {}])
                 IN [lat |-> lat2, gated |-> FALSE, raised |-> FALSE,
                     trace |-> f.trace, alert_sent |-> f.alert_sent,
                     delivered |-> f.delivered]

\* the outcome of a loop iteration that does not call _send_alert
NoSend(lat, raised) ==
    [lat |-> lat, gated |-> FALSE, raised |-> raised, trace |-> <<>>,
     alert_sent |-> FALSE, delivered |-> {}]

\* one entry of alert_log: the sample, what it was classified as ("none":
\* no alert attempted), whether _send_alert was called, the last alert time
\* of its key before the call (an Optional), and what the call did
LogEntry(metric, severity, message, called, lat, send) ==
    [name |-> metric.name, value |-> metric.value, severity |-> severity,
     message |-> message, called |-> called,
     before |-> IF metric.name \in DOMAIN lat THEN Some(lat[metric.name]) ELSE None,
     gated |-> send.gated, raised |-> send.raised, trace |-> send.trace,
     alert_sent |-> send.alert_sent, delivered |-> send.delivered]

\* variant: the comparison with >= for >
LatencySeverityInclusive(value, critical_threshold, warning_threshold) ==
    IF value >= critical_threshold THEN "critical"
    ELSE IF value >= warning_threshold THEN "warning"
    ELSE "none"

\* the comparison of lines 251-266: the severity of a latency value
LatencySeverity(value, critical_threshold, warning_threshold) ==
    IF value > critical_threshold THEN "critical"
    ELSE IF value > warning_threshold THEN "warning"
    ELSE "none"

\* variant: a latency sample recognised by its unit
IsLatencySampleByUnit(metric) == metric.unit = "Milliseconds"

\* the test of line 244
IsLatencySample(metric) == <<metric.name, "network_latency_">> \in StartsWithPairs

\* variant: the availability test without the comparison of the value
IsUnreachableAnyValue(metric) ==
    <<metric.name, "network_availability_">> \in StartsWithPairs

\* the test of line 269
IsUnreachable(metric) ==
    /\ <<metric.name, "network_availability_">> \in StartsWithPairs
    /\ metric.value = 0

\* the body of the loop of check_alerts for one sample (lines 241-276)
EvalSample(cfg, aws, lat, metric, now, cooldown_seconds, failing) ==
    IF IsLatencySample(metric)
    THEN IF "latency" \notin DOMAIN cfg.thresholds
         THEN LET send == NoSend(lat, TRUE)
              IN [lat |-> lat, raised |-> TRUE,
                  entry |-> LogEntry(metric, "none", "", FALSE, lat, send)]
         ELSE LET target_type == GetTargetType(cfg, metric.name)
                  thresholds == cfg.thresholds.latency
                  critical_threshold == Get(thresholds, target_type \o "_critical", 1000)
                  warning_threshold == Get(thresholds, target_type \o "_warning", 500)
                  severity == LatencySeverity(metric.value, critical_threshold,
                                              warning_threshold)
                  message ==
                      IF severity = "critical"
                      THEN "CRITICAL: High latency to " \o metric.name \o ": "
                           \o Format1f(metric.value) \o "ms"
                      ELSE IF severity = "warning"
                      THEN "WARNING: Elevated latency to " \o metric.name \o ": "
                           \o Format1f(metric.value) \o "ms"
                      ELSE ""
                  send == IF severity = "none" THEN NoSend(lat, FALSE)
                          ELSE SendAlert(cfg, aws, lat, metric.name, now,
                                         cooldown_seconds, failing)
              IN [lat |-> send.lat, raised |-> send.raised,
                  entry |-> LogEntry(metric, severity, message,
                                     severity /= "none", lat, send)]
    ELSE IF IsUnreachable(metric)
    THEN LET send == SendAlert(cfg, aws, lat, metric.name, now,
                               cooldown_seconds, failing)
         IN [lat |-> send.lat, raised |-> send.raised,
             entry |-> LogEntry(metric, "critical",
                                "CRITICAL: Target unreachable: " \o metric.name,
                                TRUE, lat, send)]
    ELSE [lat |-> lat, raised |-> FALSE,
          entry |-> LogEntry(metric, "none", "", FALSE, lat, NoSend(lat, FALSE))]

\* variant: the loop going on to the next sample after an exception
RECURSIVE EvalLoopContinuing(_, _, _, _, _, _, _, _, _)
EvalLoopContinuing(cfg, aws, lat, metrics, i, now, cooldown_seconds, failing, log) ==
    IF i > Len(metrics)
    THEN [lat |-> lat, log |-> log,
          raised |-> \E j \in DOMAIN log : log[j].raised]
    ELSE LET r == EvalSample(cfg, aws, lat, metrics[i], now, cooldown_seconds, failing)
         IN EvalLoopContinuing(cfg, aws, r.lat, metrics, i + 1, now,
                               cooldown_seconds, failing, Append(log, r.entry))

\* the loop of check_alerts from sample i on; an exception ends it
RECURSIVE EvalLoop(_, _, _, _, _, _, _, _, _)
EvalLoop(cfg, aws, lat, metrics, i, now, cooldown_seconds, failing, log) ==
    IF i > Len(metrics)
    THEN [lat |-> lat, log |-> log, raised |-> FALSE]
    ELSE LET r == EvalSample(cfg, aws, lat, metrics[i], now, cooldown_seconds, failing)
         IN IF r.raised
            THEN [lat |-> r.lat, log |-> Append(log, r.entry), raised |-> TRUE]
            ELSE EvalLoop(cfg, aws, r.lat, metrics, i + 1, now, cooldown_seconds,
                          failing, Append(log, r.entry))

\* variant: the cooldown taken in minutes
CooldownSecondsUnconverted(cfg) == cfg.alerts.cooldown_minutes

\* cooldown_seconds of line 238
CooldownSeconds(cfg) == cfg.alerts.cooldown_minutes * 60

\* check_alerts.  raised: an exception left the method.  clock: whether
\* line 237 read the clock.
CheckAlerts(cfg, aws, lat, metrics, now, failing) ==
    IF "enabled" \notin DOMAIN cfg.alerts
    THEN [lat |-> lat, log |-> <<>>, raised |-> TRUE, clock |-> FALSE]
    ELSE IF ~cfg.alerts.enabled
    THEN [lat |-> lat, log |-> <<>>, raised |-> FALSE, clock |-> FALSE]
    ELSE IF "cooldown_minutes" \notin DOMAIN cfg.alerts
    THEN [lat |-> lat, log |-> <<>>, raised |-> TRUE, clock |-> TRUE]
    ELSE LET r == EvalLoop(cfg, aws, lat, metrics, 1, now, CooldownSeconds(cfg),
                           failing, <<>>)
         IN [lat |-> r.lat, log |-> r.log, raised |-> r.raised, clock |-> TRUE]

\* the sets of channels whose sink is down during one evaluation
FailureChoices == { {}, {"email"}, {"email", "sms", "slack", "webhook"} }

---------------------------------------------------------------------------
(* Exporter: the cloud metric sink *)

\* chunk_size of line 198
chunk_size == 20

\* the dimensions of a data point (lines 212-215)
RECURSIVE Dimensions(_)
Dimensions(dims) ==
    IF dims = <<>> THEN <<>>
    ELSE <<[Name |-> dims[1][1], Value |-> dims[1][2]]>> \o Dimensions(Tail(dims))

\* data_point of lines 204-217: Dimensions only for a non-empty dict
DataPoint(metric) ==
    IF metric.dimensions = <<>>
    THEN [MetricName |-> metric.name, Value |-> metric.value, Unit |-> metric.unit,
          Timestamp |-> metric.timestamp]
    ELSE [MetricName |-> metric.name, Value |-> metric.value, Unit |-> metric.unit,
          Timestamp |-> metric.timestamp,
          Dimensions |-> Dimensions(metric.dimensions)]

\* variant: the slice with its upper index included
ChunkInclusive(metrics, i) ==
    SubSeq(metrics, i, IF i + chunk_size < Len(metrics)
                       THEN i + chunk_size ELSE Len(metrics))

\* metrics[i:i + chunk_size], with i counted from 1
Chunk(metrics, i) ==
    SubSeq(metrics, i, IF i + chunk_size - 1 < Len(metrics)
                       THEN i + chunk_size - 1 ELSE Len(metrics))

\* variant: a failed sink call is made once more, and the loop goes on
RECURSIVE PutChunksRetry(_, _, _, _, _)
PutChunksRetry(cfg, metrics, i, fails_at, calls) ==
    IF i > Len(metrics) THEN [calls |-> calls, result |-> TRUE]
    ELSE IF "namespace" \notin DOMAIN cfg.aws
    THEN [calls |-> calls, result |-> FALSE]
    ELSE LET chunk == Chunk(metrics, i)
             metric_data == [j \in 1..Len(chunk) |-> DataPoint(chunk[j])]
         IN IF Len(calls) + 1 = fails_at
            THEN PutChunksRetry(cfg, metrics, i + chunk_size, fails_at,
                                Append(Append(calls, metric_data), metric_data))
            ELSE PutChunksRetry(cfg, metrics, i + chunk_size, fails_at,
                                Append(calls, metric_data))

\* the loop of lines 199-223 from index i on.  calls: the put_metric_data
\* calls made so far, each the list of data points it carried.  fails_at:
\* the number of the call the sink raises on (0: none).  A KeyError of
\* config['aws']['namespace'] is raised before the call is made.
RECURSIVE PutChunks(_, _, _, _, _)
PutChunks(cfg, metrics, i, fails_at, calls) ==
    IF i > Len(metrics) THEN [calls |-> calls, result |-> TRUE]
    ELSE IF "namespace" \notin DOMAIN cfg.aws
    THEN [calls |-> calls, result |-> FALSE]
    ELSE LET chunk == Chunk(metrics, i)
             metric_data == [j \in 1..Len(chunk) |-> DataPoint(chunk[j])]
         IN IF Len(calls) + 1 = fails_at
            THEN [calls |-> Append(calls, metric_data), result |-> FALSE]
            ELSE PutChunks(cfg, metrics, i + chunk_size, fails_at,
                           Append(calls, metric_data))

\* variant: send_to_cloudwatch without the test of line 193
SendToCloudwatchUnguarded(cfg, aws, metrics, fails_at) ==
    PutChunks(cfg, metrics, 1, fails_at, <<>>)

\* send_to_cloudwatch: the sink calls made and the value returned
SendToCloudwatch(cfg, aws, metrics, fails_at) ==
    IF ~aws THEN [calls |-> <<>>, result |-> FALSE]
    ELSE PutChunks(cfg, metrics, 1, fails_at, <<>>)

---------------------------------------------------------------------------
(* Exporter: the pull endpoint *)

Upper == "ABCDEFGHIJKLMNOPQRSTUVWXYZ"
Lower == "abcdefghijklmnopqrstuvwxyz"

\* str.lower() and str.replace('-', '_') on one character (ASCII)
LowerTable ==
    [c \in {SubSeq(Upper, i, i) : i \in 1..Len(Upper)} |->
        LET i == CHOOSE j \in 1..Len(Upper) : SubSeq(Upper, j, j) = c
        IN SubSeq(Lower, i, i)]

LowerChar(c) == IF c \in DOMAIN LowerTable THEN LowerTable[c] ELSE c

HyphenToUnderscore(c) == IF c = "-" THEN "_" ELSE c

\* metric.name.replace('-', '_').lower() of line 421, from character i on
RECURSIVE PromNameFrom(_, _)
PromNameFrom(name, i) ==
    IF i > Len(name) THEN ""
    ELSE LowerChar(HyphenToUnderscore(SubSeq(name, i, i)))
         \o PromNameFrom(name, i + 1)

PromName(name) == PromNameFrom(name, 1)

\* ",".join of the k="v" pairs, in the insertion order of the dict
RECURSIVE LabelPairs(_, _)
LabelPairs(dims, i) ==
    IF i > Len(dims) THEN ""
    ELSE (IF i > 1 THEN "," ELSE "")
         \o dims[i][1] \o "=\"" \o dims[i][2] \o "\""
         \o LabelPairs(dims, i + 1)

\* lines 424-427: no block for None and for an empty dict
Labels(dims) == IF dims = <<>> THEN "" ELSE "{" \o LabelPairs(dims, 1) \o "}"

\* str() of a float that holds a whole number
FloatStr(value) == ToString(value) \o ".0"

\* int(metric.timestamp.timestamp() * 1000)
TimestampMs(timestamp) == timestamp * 1000

\* line 431
PromLine(metric) ==
    PromName(metric.name) \o Labels(metric.dimensions) \o " "
    \o FloatStr(metric.value) \o " " \o ToString(TimestampMs(metric.timestamp))

RECURSIVE JoinLines(_, _)
JoinLines(metrics, i) ==
    IF i > Len(metrics) THEN ""
    ELSE (IF i > 1 THEN "\n" ELSE "") \o PromLine(metrics[i])
         \o JoinLines(metrics, i + 1)

\* variant: a rendering that ends with the clock of the last alert evaluation
ExportPrometheusMetricsStamped(metrics) ==
    IF metrics = <<>> THEN ""
    ELSE JoinLines(metrics, 1) \o "\n# "
         \o ToString(IF current_time = None THEN 0 ELSE current_time[1])

\* export_prometheus_metrics: reads its argument, writes nothing
ExportPrometheusMetrics(metrics) == JoinLines(metrics, 1)

\* what can go wrong while do_GET answers /metrics: the rendering raises, or
\* the write of the body raises after the 200 status line and the headers
\* were sent (the peer closed the connection, or the text cannot be encoded)
Faults == {"none", "render", "write"}

Paths == {"/metrics", "/", "/metrics/"}

ContentType == "text/plain; charset=utf-8"

\* do_GET on the batch it read from the cache: the status of every
\* send_response call in order, the Content-Type header and the body sent
DoGET(path, cache, fault) ==
    IF path = "/metrics"
    THEN CASE fault = "render" ->
                [statuses |-> <<500>>, content_type |-> None, body |-> ""]
           [] fault = "write" ->
                [statuses |-> <<200, 500>>, content_type |-> Some(ContentType),
                 body |-> ""]
           [] fault = "none" ->
                [statuses |-> <<200>>, content_type |-> Some(ContentType),
                 body |-> ExportPrometheusMetrics(cache)]
    ELSE [statuses |-> <<404>>, content_type |-> None, body |-> ""]

---------------------------------------------------------------------------
(* The program *)

\* _init_aws: False when the region is missing or the sink is unreachable
InitAws(cfg, reachable) == "region" \in DOMAIN cfg.aws /\ reachable

\* the server thread before HTTPServer(...) returned; request holds the
\* request do_GET is answering
ServerStarting == [state |-> "starting", request |-> None]

\* the state after NetworkMonitor() returned in main() and the server
\* thread was created
Init ==
    /\ config \in ConfigChoices
    /\ \E reachable \in BOOLEAN : aws_enabled = InitAws(config, reachable)
    /\ metrics_cache = <<>>
    /\ last_alert_times = <<>>
    /\ pc = "cycle"
    /\ probes = <<>>
    /\ collected = [raised |-> FALSE, metrics |-> <<>>]
    /\ current_time = None
    /\ alert_log = <<>>
    /\ cycle_result = "none"
    /\ push = [called |-> FALSE, calls |-> <<>>, result |-> FALSE, fails_at |-> 0]
    /\ steps = <<>>
    /\ server = ServerStarting
    /\ response = None

\* the push of one cycle: lines 447-448
CyclePush(cfg, aws, metrics, fails_at) ==
    IF aws
    THEN LET r == SendToCloudwatch(cfg, aws, metrics, fails_at)
         IN [called |-> TRUE, calls |-> r.calls, result |-> r.result,
             fails_at |-> fails_at]
    ELSE [called |-> FALSE, calls |-> <<>>, result |-> FALSE, fails_at |-> 0]

\* variant: the cycle pushing self.metrics_cache before writing it
RunMonitoringCyclePushFirst(cfg, aws, lat, cache, metrics, now, failing, fails_at) ==
    [cache |-> metrics,
     push |-> CyclePush(cfg, aws, cache, fails_at),
     alerts |-> CheckAlerts(cfg, aws, lat, metrics, now, failing),
     steps |-> IF aws THEN <<"collect", "push", "cache", "evaluate">>
               ELSE <<"collect", "cache", "evaluate">>]

\* variant: send_to_cloudwatch letting the exception of the sink out, which
\* ends the cycle at line 455 before the alert evaluation
RunMonitoringCyclePushRaises(cfg, aws, lat, cache, metrics, now, failing, fails_at) ==
    IF aws /\ ~SendToCloudwatch(cfg, aws, metrics, fails_at).result
    THEN [cache |-> metrics,
          push |-> CyclePush(cfg, aws, metrics, fails_at),
          alerts |-> [lat |-> lat, log |-> <<>>, raised |-> FALSE, clock |-> FALSE],
          steps |-> <<"collect", "cache", "push">>]
    ELSE [cache |-> metrics,
          push |-> CyclePush(cfg, aws, metrics, fails_at),
          alerts |-> CheckAlerts(cfg, aws, lat, metrics, now, failing),
          steps |-> IF aws THEN <<"collect", "cache", "push", "evaluate">>
                    ELSE <<"collect", "cache", "evaluate">>]

\* run_monitoring_cycle after collect returned metrics (lines 444-451), with
\* the clock reading now, the channel sinks in failing down and the cloud
\* sink raising on call fails_at: the cache write, the push, the evaluation
RunMonitoringCycle(cfg, aws, lat, cache, metrics, now, failing, fails_at) ==
    [cache |-> metrics,
     push |-> CyclePush(cfg, aws, metrics, fails_at),
     alerts |-> CheckAlerts(cfg, aws, lat, metrics, now, failing),
     steps |-> IF aws THEN <<"collect", "cache", "push", "evaluate">>
               ELSE <<"collect", "cache", "evaluate">>]

\* the calls of put_metric_data that can raise during a push of n samples
\* (0: none does)
SinkFailures(n) == 0..((n + chunk_size - 1) \div chunk_size)

\* the outages one cycle can meet: no sink down; the mail sink and the
\* cloud sink's first call down; every channel sink down
Outages ==
    {[failing |-> f, fails_at |-> IF f = {"email"} THEN 1 ELSE 0] :
        f \in FailureChoices}

\* what lines 444-456 of a cycle leave, for the batch metrics of its collect
Commit(metrics, now, failing, fails_at) ==
    \E r \in {RunMonitoringCycle(config, aws_enabled, last_alert_times,
                                 metrics_cache, metrics, now, failing, fails_at)} :
        /\ metrics_cache' = r.cache
        /\ push' = r.push
        /\ steps' = r.steps
        /\ last_alert_times' = r.alerts.lat
        /\ alert_log' = r.alerts.log
        /\ current_time' = IF r.alerts.clock THEN Some(now) ELSE current_time
        /\ cycle_result' = IF r.alerts.raised THEN "alerts_failed" ELSE "completed"

\* one iteration of the loop of main(): run_monitoring_cycle with the probe
\* answers pr, the clock reading now and the outage o.  An exception of collect or of
\* check_alerts is caught and logged at line 455.  A cycle lasts more than a
\* second (psutil.cpu_percent(interval=1)) and is followed by the sleep, so
\* the clock of an evaluation is later than that of the evaluation before it.
Cycle ==
    /\ pc = "cycle"
    /\ pc' = "sleep"
    /\ \E pr \in CycleProbeChoices(config) :
          /\ probes' = pr
          /\ \E c \in {CollectNetworkMetrics(config, pr)} :
                /\ collected' = c
                /\ IF c.raised
                   THEN /\ cycle_result' = "collect_failed"
                        /\ steps' = <<"collect">>
                        /\ UNCHANGED <<metrics_cache, last_alert_times,
                                       current_time, alert_log, push>>
                   ELSE \E now \in Times, o \in Outages :
                           /\ IF current_time = None THEN TRUE
                              ELSE now > current_time[1]
                           /\ Commit(c.metrics, now, o.failing, o.fails_at)
    /\ UNCHANGED <<config, aws_enabled, server, response>>

\* lines 522-523 of main(): a missing interval is a KeyError, logged and
\* re-raised at lines 527-529
Sleep ==
    /\ pc = "sleep"
    /\ pc' = IF "ping_check" \in DOMAIN config.intervals THEN "cycle" ELSE "crashed"
    /\ UNCHANGED <<config, aws_enabled, metrics_cache, last_alert_times, probes,
                   collected, current_time, alert_log, cycle_result, push, steps,
                   server, response>>

Next == Cycle \/ Sleep

Spec == Init /\ [][Next]_vars

\* the first collection of the process, with every probe answer
Collect ==
    \E pr \in AllProbeChoices(config) :
        /\ probes = <<>>
        /\ probes' = pr
        /\ collected' = CollectNetworkMetrics(config, pr)
        /\ UNCHANGED <<config, aws_enabled, metrics_cache, last_alert_times, pc,
                       current_time, alert_log, cycle_result, push, steps,
                       server, response>>

SpecCollect == Init /\ [][Collect]_vars

\* the largest batch given to send_to_cloudwatch below
MaxBatch == 45

\* a batch of n samples, every second one without dimensions
PushBatch(n) ==
    [i \in 1..n |->
        MetricData("sample_" \o ToString(i), i, "Count", 1000,
                   IF i % 2 = 1 THEN << <<"target_name", ToString(i)>> >> ELSE None)]

\* a process whose collect returned a batch of up to MaxBatch samples
InitPush ==
    /\ config \in {BaseConfig, Without(BaseConfig, <<"aws", "namespace">>)}
    /\ \E reachable \in BOOLEAN : aws_enabled = InitAws(config, reachable)
    /\ \E n \in 0..MaxBatch : collected = [raised |-> FALSE, metrics |-> PushBatch(n)]
    /\ metrics_cache = <<>>
    /\ last_alert_times = <<>>
    /\ pc = "cycle"
    /\ probes = <<>>
    /\ current_time = None
    /\ alert_log = <<>>
    /\ cycle_result = "none"
    /\ push = [called |-> FALSE, calls |-> <<>>, result |-> FALSE, fails_at |-> 0]
    /\ steps = <<>>
    /\ server = ServerStarting
    /\ response = None

\* one call of send_to_cloudwatch on the collected batch, with every way the
\* sink can answer
Push ==
    /\ ~push.called
    /\ \E fails_at \in SinkFailures(Len(collected.metrics)) :
          \E r \in {SendToCloudwatch(config, aws_enabled, collected.metrics, fails_at)} :
              push' = [called |-> TRUE, calls |-> r.calls, result |-> r.result,
                       fails_at |-> fails_at]
    /\ UNCHANGED <<config, aws_enabled, metrics_cache, last_alert_times, pc,
                   probes, collected, current_time, alert_log, cycle_result,
                   steps, server, response>>

SpecPush == InitPush /\ [][Push]_vars

\* the cycles a run of pushes goes through
MaxPushCycles == 2

\* the sizes of the batches of the later cycles
NextSizes == {5, 45}

\* the batch of n samples collected at the clock reading timestamp
BatchAt(n, timestamp) ==
    [i \in 1..n |-> [PushBatch(n)[i] EXCEPT !.timestamp = timestamp]]

\* line 441 of the next cycle: collect returns a new list, stamped one
\* second later; the cycle has not pushed yet
NextBatch ==
    /\ push.called
    /\ collected.metrics /= <<>>
    /\ collected.metrics[1].timestamp < 1000 + MaxPushCycles - 1
    /\ \E n \in NextSizes :
          collected' = [raised |-> FALSE,
                        metrics |-> BatchAt(n, collected.metrics[1].timestamp + 1)]
    /\ push' = [called |-> FALSE, calls |-> <<>>, result |-> FALSE, fails_at |-> 0]
    /\ UNCHANGED <<config, aws_enabled, metrics_cache, last_alert_times, pc,
                   probes, current_time, alert_log, cycle_result, steps, server,
                   response>>

\* pushes of successive cycles, each of the batch its cycle collected
SpecPushCycles == InitPush /\ [][Push \/ NextBatch]_vars

---------------------------------------------------------------------------
(* The scheduler thread and the server thread, interleaved.  The scheduler *)
(* steps are those of run_monitoring_cycle, taken one at a time; the       *)
(* server is an HTTPServer, which answers one request at a time.           *)

ServerPingOutcomes == {[kind |-> "reply", us |-> 150000], [kind |-> "timeout"]}

ServerProbeChoices(cfg) ==
    [pings : [ProbedNames(cfg) -> ServerPingOutcomes],
     dns : [{TestDomains[i] : i \in DOMAIN TestDomains}
            -> {o \in DnsOutcomes : o.kind = "resolved"}],
     system : {o \in SystemOutcomes : o.kind = "ok"},
     timestamp : Timestamps]

InitServer ==
    /\ config \in ServerConfigs
    /\ \E reachable \in BOOLEAN : aws_enabled = InitAws(config, reachable)
    /\ metrics_cache = <<>>
    /\ last_alert_times = <<>>
    /\ pc = "cycle"
    /\ probes = <<>>
    /\ collected = [raised |-> FALSE, metrics |-> <<>>]
    /\ current_time = None
    /\ alert_log = <<>>
    /\ cycle_result = "none"
    /\ push = [called |-> FALSE, calls |-> <<>>, result |-> FALSE, fails_at |-> 0]
    /\ steps = <<>>
    /\ server = ServerStarting
    /\ response = None

\* variant: collect appends to the list the cache refers to
CacheAliasedWhileCollecting(cache, metrics) == metrics

\* the cache while collect_network_metrics runs: metrics of line 126 is a new
\* list, local to the call, and self.metrics_cache is assigned at line 444 only
CacheWhileCollecting(cache, metrics) == cache

\* collect_network_metrics up to the end of the ping loop (lines 126-163):
\* the list of the call holds the ping samples
CycleBegin ==
    /\ pc = "cycle"
    /\ \E pr \in ServerProbeChoices(config) :
          /\ probes' = pr
          /\ IF CollectNetworkMetrics(config, pr).raised
             THEN /\ pc' = "sleep"
                  /\ collected' = [raised |-> TRUE, metrics |-> <<>>]
                  /\ cycle_result' = "collect_failed"
                  /\ steps' = <<"collect">>
             ELSE /\ pc' = "collecting"
                  /\ collected' = [raised |-> FALSE,
                                   metrics |-> PingAll(AllTargets(config), pr.pings,
                                                       pr.timestamp)]
                  /\ UNCHANGED <<cycle_result, steps>>
    /\ metrics_cache' = CacheWhileCollecting(metrics_cache, collected'.metrics)
    /\ UNCHANGED <<config, aws_enabled, last_alert_times, current_time,
                   alert_log, push, server, response>>

\* the rest of collect_network_metrics (lines 165-189): the list is complete
CycleCollect ==
    /\ pc = "collecting"
    /\ pc' = "collected"
    /\ collected' = CollectNetworkMetrics(config, probes)
    /\ metrics_cache' = CacheWhileCollecting(metrics_cache, collected'.metrics)
    /\ UNCHANGED <<config, aws_enabled, last_alert_times, probes, current_time,
                   alert_log, cycle_result, push, steps, server, response>>

\* lines 444-451: the cache write, the push and the alert evaluation, with
\* the sink and the channels answering
CycleCommit ==
    /\ pc = "collected"
    /\ pc' = "sleep"
    /\ \E now \in Times :
          /\ IF current_time = None THEN TRUE ELSE now > current_time[1]
          /\ Commit(collected.metrics, now, {}, 0)
    /\ UNCHANGED <<config, aws_enabled, probes, collected, server, response>>

SchedulerNext == CycleBegin \/ CycleCollect \/ CycleCommit \/ Sleep

\* variant: a failure of the server thread ends the process
ServeFailsStopsProcess ==
    /\ server.state \in {"listening", "serving"}
    /\ server' = [server EXCEPT !.state = "crashed"]
    /\ pc' = "crashed"
    /\ UNCHANGED <<config, aws_enabled, metrics_cache, last_alert_times,
                   probes, collected, current_time, alert_log, cycle_result,
                   push, steps, response>>

\* run_metrics_server, line 494: the bind succeeds, or raises and the thread
\* ends at line 499
RunMetricsServer ==
    /\ server.state = "starting"
    /\ \E bound \in BOOLEAN :
          server' = [server EXCEPT !.state = IF bound THEN "listening"
                                             ELSE "bind_failed"]
    /\ UNCHANGED <<config, aws_enabled, metrics_cache, last_alert_times, pc,
                   probes, collected, current_time, alert_log, cycle_result,
                   push, steps, response>>

\* serve_forever raises: the exception is logged at line 499 and the thread
\* ends, the main thread goes on
ServeFails ==
    /\ server.state \in {"listening", "serving"}
    /\ server' = [server EXCEPT !.state = "crashed"]
    /\ UNCHANGED <<config, aws_enabled, metrics_cache, last_alert_times, pc,
                   probes, collected, current_time, alert_log, cycle_result,
                   push, steps, response>>

\* do_GET up to line 469: the path is tested and, for /metrics, the list the
\* cache refers to is read
GetRead ==
    /\ server.state = "listening"
    /\ \E path \in Paths :
          server' = [state |-> "serving",
                     request |-> Some([path |-> path,
                                       batch |-> IF path = "/metrics"
                                                 THEN metrics_cache ELSE <<>>])]
    /\ UNCHANGED <<config, aws_enabled, metrics_cache, last_alert_times, pc,
                   probes, collected, current_time, alert_log, cycle_result,
                   push, steps, response>>

\* the rest of do_GET: the list read is rendered and the answer is sent
GetRespond ==
    /\ server.state = "serving"
    /\ \E fault \in Faults :
          response' = Some([path |-> server.request[1].path,
                            batch |-> server.request[1].batch,
                            fault |-> fault,
                            reply |-> DoGET(server.request[1].path,
                                            server.request[1].batch, fault)])
    /\ server' = [state |-> "listening", request |-> None]
    /\ UNCHANGED <<config, aws_enabled, metrics_cache, last_alert_times, pc,
                   probes, collected, current_time, alert_log, cycle_result,
                   push, steps>>

ServerNext == RunMetricsServer \/ ServeFails \/ GetRead \/ GetRespond

NextServer == SchedulerNext \/ ServerNext

SpecServer == InitServer /\ [][NextServer]_vars

\* the same threads under the configurations that disable alerting, with the
\* main thread never suspended for ever: the loop of main() takes its next
\* step whenever it has one
InitServerFair == InitServer /\ ~config.alerts.enabled

FairSpecServer == InitServerFair /\ [][NextServer]_vars /\ WF_vars(SchedulerNext)

---------------------------------------------------------------------------
(* The stop signal.  SIGINT reaches the main thread as a KeyboardInterrupt *)
(* raised between two instructions, wherever the thread is; the steps of   *)
(* lines 444-451 are taken one at a time.                                  *)

\* line 444: self.metrics_cache = metrics
WriteCache ==
    /\ pc = "collected"
    /\ pc' = "cached"
    /\ metrics_cache' = collected.metrics
    /\ steps' = <<"collect", "cache">>
    /\ UNCHANGED <<config, aws_enabled, last_alert_times, probes, collected,
                   current_time, alert_log, cycle_result, push, server, response>>

\* lines 447-448
PushStep ==
    /\ pc = "cached"
    /\ pc' = "pushed"
    /\ push' = CyclePush(config, aws_enabled, collected.metrics, 0)
    /\ steps' = IF aws_enabled THEN Append(steps, "push") ELSE steps
    /\ UNCHANGED <<config, aws_enabled, metrics_cache, last_alert_times, probes,
                   collected, current_time, alert_log, cycle_result, server,
                   response>>

\* line 451, and the end of run_monitoring_cycle
Evaluate ==
    /\ pc = "pushed"
    /\ pc' = "sleep"
    /\ \E now \in Times :
          /\ IF current_time = None THEN TRUE ELSE now > current_time[1]
          /\ \E a \in {CheckAlerts(config, aws_enabled, last_alert_times,
                                   collected.metrics, now, {})} :
                /\ last_alert_times' = a.lat
                /\ alert_log' = a.log
                /\ current_time' = IF a.clock THEN Some(now) ELSE current_time
                /\ cycle_result' = IF a.raised THEN "alerts_failed" ELSE "completed"
    /\ steps' = Append(steps, "evaluate")
    /\ UNCHANGED <<config, aws_enabled, metrics_cache, probes, collected, push,
                   server, response>>

\* where run_monitoring_cycle is when it has started and not returned
InFlight == pc \in {"collecting", "collected", "cached", "pushed"}

\* KeyboardInterrupt is not an Exception: the handler of line 455 does not
\* catch it, so it leaves run_monitoring_cycle where it was raised and is
\* caught at line 525; main() returns and the daemon thread ends with it
Interrupt ==
    /\ pc \in {"cycle", "collecting", "collected", "cached", "pushed", "sleep"}
    /\ pc' = "stopped"
    /\ cycle_result' = IF InFlight THEN "interrupted" ELSE cycle_result
    /\ server' = [state |-> "terminated", request |-> None]
    /\ UNCHANGED <<config, aws_enabled, metrics_cache, last_alert_times, probes,
                   collected, current_time, alert_log, push, steps, response>>

NextStop ==
    CycleBegin \/ CycleCollect \/ WriteCache \/ PushStep \/ Evaluate \/ Sleep
    \/ Interrupt

SpecStop == InitServer /\ [][NextStop]_vars

---------------------------------------------------------------------------
(* Properties of the alert engine.  alert_log holds one entry per sample   *)
(* the last evaluation reached, in batch order; current_time holds the     *)
(* clock reading of that evaluation.                                       *)

\* the clock reading of the evaluation that wrote alert_log
Now == current_time[1]

\* alerts.cooldown_minutes in seconds
Cooldown == config.alerts.cooldown_minutes * 60

\* the call of _send_alert for this entry passed the gate: line 297 ran
Dispatched(e) == e.called /\ ~e.gated /\ e.trace /= <<>>

\* the channels whose enabled flag is set, in the order of lines 305-320
EnabledChannelNames(cfg) ==
    SelectSeq(ChannelNames, LAMBDA ch : ChannelEnabled(cfg.alerts.channels, ch))

\* C1: across monitoring cycles the last alert time of a key only moves by
\* at least cooldown_minutes*60 seconds, and a classified sample whose key
\* was alerted less than the cooldown before the evaluation is skipped: no
\* channel is invoked and last_alert_times[key] keeps its value.
C1_CooldownGate ==
    [][ /\ \A k \in DOMAIN last_alert_times :
              last_alert_times'[k] /= last_alert_times[k]
              => last_alert_times'[k] - last_alert_times[k]
                    >= config.alerts.cooldown_minutes * 60
        /\ \A i \in DOMAIN alert_log' :
              (/\ alert_log'[i].called
               /\ alert_log'[i].before /= None
               /\ current_time'[1] - alert_log'[i].before[1]
                     < config.alerts.cooldown_minutes * 60)
              => /\ alert_log'[i].gated
                 /\ alert_log'[i].trace = <<>>
                 /\ alert_log'[i].delivered = {}
                 /\ ~alert_log'[i].alert_sent
                 /\ last_alert_times'[alert_log'[i].name] = alert_log'[i].before[1]
      ]_vars

\* a classified sample was skipped by the gate
C1_Witness ==
    \E i \in DOMAIN alert_log :
        /\ alert_log[i].called
        /\ alert_log[i].gated
        /\ alert_log[i].before /= None
        /\ Now - alert_log[i].before[1] < Cooldown
        /\ last_alert_times[alert_log[i].name] = alert_log[i].before[1]

\* C2: a classified sample is dispatched if and only if its key was never
\* alerted or was last alerted at least the cooldown before the evaluation
\* (equality included); with critical=100 and a cooldown of 5 minutes, 150 ms
\* dispatches at t=0, not at t=120 and again at t=360.
C2_RefireAfterCooldown ==
    \A i \in DOMAIN alert_log :
        alert_log[i].called
        => (Dispatched(alert_log[i])
            <=> IF alert_log[i].before = None THEN TRUE
                ELSE Now - alert_log[i].before[1] >= Cooldown)

\* the example: 150 ms against critical=100, alerted at t=0, fires at t=360
C2_Witness ==
    /\ config = MakeConfig(TargetsLan, ThresholdsLanCritical, 5, ChannelsMixed, TRUE)
    /\ current_time = Some(360)
    /\ \E i \in DOMAIN alert_log :
          /\ alert_log[i].name = "network_latency_lan_gateway"
          /\ alert_log[i].value = 150
          /\ alert_log[i].severity = "critical"
          /\ alert_log[i].before = Some(0)
          /\ Dispatched(alert_log[i])

\* C3: a classified sample that passes the gate has its alert time recorded
\* before any channel is invoked and whatever the channels then do, and when
\* nothing was delivered the next evaluation within the cooldown is gated for
\* that key: a failed delivery is not retried.
C3_RecordBeforeDelivery ==
    /\ [](\A i \in DOMAIN alert_log :
             (alert_log[i].called /\ ~alert_log[i].gated)
             => /\ alert_log[i].trace /= <<>>
                /\ alert_log[i].trace[1] = "record"
                /\ \A j \in 2..Len(alert_log[i].trace) :
                      alert_log[i].trace[j] /= "record"
                /\ alert_log[i].name \in DOMAIN last_alert_times
                /\ last_alert_times[alert_log[i].name] = Now)
    /\ [][ \A i \in DOMAIN alert_log, j \in DOMAIN alert_log' :
              (/\ alert_log[i].called
               /\ ~alert_log[i].gated
               /\ alert_log[i].delivered = {}
               /\ current_time' /= current_time
               /\ alert_log'[j].name = alert_log[i].name
               /\ alert_log'[j].called
               /\ current_time'[1] - current_time[1] < config.alerts.cooldown_minutes * 60)
              => /\ alert_log'[j].gated
                 /\ alert_log'[j].trace = <<>>
         ]_vars

\* every invoked channel failed, and the time is recorded all the same
C3_Witness ==
    \E i \in DOMAIN alert_log :
        /\ alert_log[i].called
        /\ ~alert_log[i].gated
        /\ Len(alert_log[i].trace) > 1
        /\ alert_log[i].delivered = {}
        /\ last_alert_times[alert_log[i].name] = Now

C5_CheckAlertsNeverRaises == cycle_result /= "alerts_failed"

\* the thresholds of a target class, with the defaults of lines 248-249
CriticalOf(class) == Get(config.thresholds.latency, class \o "_critical", 1000)
WarningOf(class) == Get(config.thresholds.latency, class \o "_warning", 500)

\* C6: a latency sample the evaluation classifies, with the thresholds of the
\* class _get_target_type gives it (1000 and 500 when unset): above critical
\* it is critical, else above warning it is a warning, else no alert is
\* attempted; a value equal to a threshold does not cross it.
C6_LatencyThresholds ==
    \A i \in DOMAIN alert_log :
        (/\ <<alert_log[i].name, "network_latency_">> \in StartsWithPairs
         /\ "latency" \in DOMAIN config.thresholds)
        => LET e == alert_log[i]
               class == GetTargetType(config, e.name)
           IN /\ e.value > CriticalOf(class)
                 => (e.severity = "critical" /\ e.called)
              /\ (e.value <= CriticalOf(class) /\ e.value > WarningOf(class))
                 => (e.severity = "warning" /\ e.called)
              /\ (e.value <= CriticalOf(class) /\ e.value <= WarningOf(class))
                 => (e.severity = "none" /\ ~e.called /\ e.trace = <<>>)

\* the example: lan_warning=50, lan_critical=200 and a 75 ms probe of
\* lan_gateway give the two samples and exactly one alert, a warning
C6_Witness ==
    /\ config = BaseConfig
    /\ Len(alert_log) >= 2
    /\ alert_log[1].name = "network_latency_lan_gateway"
    /\ alert_log[1].value = 75
    /\ alert_log[1].severity = "warning"
    /\ alert_log[1].message
          = "WARNING: Elevated latency to network_latency_lan_gateway: 75.0ms"
    /\ Dispatched(alert_log[1])
    /\ alert_log[2].name = "network_availability_lan_gateway"
    /\ alert_log[2].value = 1
    /\ \A i \in DOMAIN alert_log : alert_log[i].called => i = 1

\* the class of a target by the group its name is a key of
ClassByMembership(cfg, target_name) ==
    IF target_name \in Keys(cfg.targets.internal) THEN "lan"
    ELSE IF target_name \in Keys(cfg.targets.work_proxy) THEN "work"
    ELSE "internet"

\* C7: the thresholds of a latency sample are those of the class its target
\* name has by group membership: lan for a key of the internal group, work
\* for a key of the work-proxy group, internet otherwise, also when the name
\* contains the name of an internal or work-proxy target.
C7_ClassByGroupMembership ==
    \A i \in DOMAIN alert_log :
        (/\ <<alert_log[i].name, "network_latency_">> \in StartsWithPairs
         /\ "latency" \in DOMAIN config.thresholds)
        => LET class == ClassByMembership(config, metrics_cache[i].dimensions[2][2])
           IN alert_log[i].severity
                 = LatencySeverity(alert_log[i].value, CriticalOf(class),
                                   WarningOf(class))

\* C8: an availability sample the evaluation reaches is critical when its
\* value is 0, whatever the latency thresholds, and is dispatched unless its
\* key is in cooldown; with value 1 no alert is attempted.
C8_AvailabilityZeroIsCritical ==
    \A i \in DOMAIN alert_log :
        <<alert_log[i].name, "network_availability_">> \in StartsWithPairs
        => LET e == alert_log[i]
           IN IF e.value = 0
              THEN /\ e.severity = "critical"
                   /\ e.called
                   /\ e.message = "CRITICAL: Target unreachable: " \o e.name
                   /\ (IF e.before = None THEN TRUE ELSE Now - e.before[1] >= Cooldown)
                      => Dispatched(e)
              ELSE /\ e.severity = "none"
                   /\ ~e.called
                   /\ e.trace = <<>>

\* a target is unreachable, no latency threshold at all is configured, and
\* the critical alert is dispatched
C8_Witness ==
    /\ "latency" \in DOMAIN config.thresholds
    /\ DOMAIN config.thresholds.latency = {}
    /\ \E i \in DOMAIN alert_log :
          /\ <<alert_log[i].name, "network_availability_">> \in StartsWithPairs
          /\ alert_log[i].value = 0
          /\ alert_log[i].severity = "critical"
          /\ Dispatched(alert_log[i])

\* C9: a sample that is neither a latency nor an availability sample is never
\* classified, whatever its value, and a step changes or adds an entry of
\* last_alert_times only for a latency or availability sample of the batch
\* that was dispatched.
C9_OnlyNetworkSamplesAlert ==
    [][ /\ \A i \in DOMAIN alert_log' :
              (/\ <<alert_log'[i].name, "network_latency_">> \notin StartsWithPairs
               /\ <<alert_log'[i].name, "network_availability_">> \notin StartsWithPairs)
              => /\ ~alert_log'[i].called
                 /\ alert_log'[i].severity = "none"
                 /\ alert_log'[i].trace = <<>>
        /\ \A k \in DOMAIN last_alert_times' :
              /\ \/ <<k, "network_latency_">> \in StartsWithPairs
                 \/ <<k, "network_availability_">> \in StartsWithPairs
              /\ (IF k \in DOMAIN last_alert_times
                  THEN last_alert_times'[k] /= last_alert_times[k] ELSE TRUE)
                 => \E i \in DOMAIN alert_log' :
                       /\ alert_log'[i].name = k
                       /\ Dispatched(alert_log'[i])
      ]_vars

\* DNS and system samples over every default threshold went through an
\* evaluation that dispatched an alert, and left no key
C9_Witness ==
    /\ \E i \in DOMAIN alert_log :
          /\ alert_log[i].name = "dns_lookup_time"
          /\ alert_log[i].value > 1000
          /\ ~alert_log[i].called
    /\ \E i \in DOMAIN alert_log :
          /\ alert_log[i].name = "system_cpu_percent"
          /\ ~alert_log[i].called
    /\ \E i \in DOMAIN alert_log : Dispatched(alert_log[i])
    /\ DOMAIN last_alert_times /= {}

\* C10: a returned batch holds, for every configured target name, exactly one
\* availability sample; value 1 and a latency sample exactly when the probe
\* succeeded, value 0 and no latency sample on any probe failure.
C10_AvailabilityPerTarget ==
    (probes /= <<>> /\ ~collected.raised)
    => \A n \in ProbedNames(config) :
          LET avail == {i \in DOMAIN collected.metrics :
                           collected.metrics[i].name = "network_availability_" \o n}
              latency == {i \in DOMAIN collected.metrics :
                             collected.metrics[i].name = "network_latency_" \o n}
              succeeded == probes.pings[n].kind = "reply"
          IN /\ Cardinality(avail) = 1
             /\ \A i \in avail :
                   collected.metrics[i].value = IF succeeded THEN 1 ELSE 0
             /\ Cardinality(latency) = IF succeeded THEN 1 ELSE 0

---------------------------------------------------------------------------
(* Properties of the sampler, the exporters, the scheduler and the server  *)

\* the positions of the samples of a collection with the given name
SamplesNamed(name) ==
    {i \in DOMAIN collected.metrics : collected.metrics[i].name = name}

\* C11: collect raises for no probe answer, and a failing ping, DNS lookup
\* or system read removes only its own samples: every target keeps its
\* availability sample, every resolved domain its dns_lookup_time sample,
\* and a successful system read its four samples.
C11_ProbeFailuresIsolated ==
    probes /= <<>>
    => /\ collected.raised <=> ~TargetGroupsPresent(config)
       /\ ~collected.raised
          => /\ \A n \in ProbedNames(config) :
                   /\ Cardinality(SamplesNamed("network_availability_" \o n)) = 1
                   /\ probes.pings[n].kind \in {"timeout", "exception"}
                      => /\ SamplesNamed("network_latency_" \o n) = {}
                         /\ \A i \in SamplesNamed("network_availability_" \o n) :
                               collected.metrics[i].value = 0
             /\ \A d \in DOMAIN probes.dns :
                   Cardinality({i \in SamplesNamed("dns_lookup_time") :
                                   collected.metrics[i].dimensions = << <<"domain", d>> >>})
                      = IF probes.dns[d].kind = "resolved" THEN 1 ELSE 0
             /\ \A k \in SystemKeys :
                   Cardinality(SamplesNamed("system_" \o k))
                      = IF probes.system.kind = "ok" THEN 1 ELSE 0
             /\ Len(collected.metrics)
                   = Cardinality(ProbedNames(config))
                     + Cardinality({n \in ProbedNames(config) :
                                       probes.pings[n].kind \in {"reply", "error"}})
                     + Cardinality({d \in DOMAIN probes.dns :
                                       probes.dns[d].kind = "resolved"})
                     + (IF probes.system.kind = "ok" THEN Cardinality(SystemKeys) ELSE 0)

\* a ping raised, a lookup raised and the system read raised, and the batch
\* still holds the other target's samples and the other lookups' samples
C11_Witness ==
    /\ probes /= <<>>
    /\ ~collected.raised
    /\ \E n, m \in ProbedNames(config) :
          /\ probes.pings[n].kind = "exception"
          /\ probes.pings[m].kind = "reply"
          /\ SamplesNamed("network_latency_" \o m) /= {}
          /\ SamplesNamed("network_availability_" \o n) /= {}
    /\ \E d \in DOMAIN probes.dns : probes.dns[d].kind = "exception"
    /\ Cardinality(SamplesNamed("dns_lookup_time")) = 2
    /\ probes.system.kind = "exception"

\* ceil(n / 20)
ChunksOf(n) == (n + 19) \div 20

\* the data points of samples from..to of the collected batch
PointsOf(from, to) ==
    [j \in 1..(to - from + 1) |-> DataPoint(collected.metrics[from + j - 1])]

\* the j-th group of at most 20 of the collected batch
GroupOf(j) ==
    PointsOf((j - 1) * 20 + 1,
             IF j * 20 < Len(collected.metrics) THEN j * 20 ELSE Len(collected.metrics))

\* C12, as stated: an enabled exporter makes ceil(n/20) sink calls of 1 to 20
\* data points whose concatenation is the batch, whatever the sink answers.
C12_ChunksCoverBatch ==
    (push.called /\ aws_enabled)
    => /\ Len(push.calls) = ChunksOf(Len(collected.metrics))
       /\ \A j \in DOMAIN push.calls :
             /\ Len(push.calls[j]) \in 1..20
             /\ push.calls[j] = GroupOf(j)

\* C12, amended: an enabled exporter calls the sink with the groups of 20 of
\* the batch in order, each of 1 to 20 data points, up to and including the
\* first call that raises and no further (none at all when aws.namespace is
\* missing); it returns True exactly when it made all ceil(n/20) calls and
\* none raised.
C12_ChunksUntilFailure ==
    (push.called /\ aws_enabled)
    => LET n == Len(collected.metrics)
           expected == IF n > 0 /\ "namespace" \notin DOMAIN config.aws THEN 0
                       ELSE IF push.fails_at = 0 THEN ChunksOf(n)
                       ELSE push.fails_at
       IN /\ Len(push.calls) = expected
          /\ \A j \in DOMAIN push.calls :
                /\ Len(push.calls[j]) \in 1..20
                /\ push.calls[j] = GroupOf(j)
          /\ push.result <=> (push.fails_at = 0 /\ expected = ChunksOf(n))

\* 45 samples, no call raising: three calls of 20, 20 and 5 data points
C12_Witness ==
    /\ push.called
    /\ aws_enabled
    /\ Len(collected.metrics) = 45
    /\ push.fails_at = 0
    /\ Len(push.calls) = 3
    /\ Len(push.calls[1]) = 20
    /\ Len(push.calls[2]) = 20
    /\ Len(push.calls[3]) = 5
    /\ push.result

\* C13: no step changes aws_enabled, so an exporter disabled at construction
\* stays disabled and one enabled then stays enabled after failed pushes;
\* while it is disabled no cycle calls the sink, and send_to_cloudwatch on
\* the cached batch makes no sink call and returns False.
C13_ExporterFixedAtStart ==
    /\ [][aws_enabled' = aws_enabled]_vars
    /\ [](~aws_enabled
          => /\ ~push.called
             /\ push.calls = <<>>
             /\ "push" \notin {steps[i] : i \in DOMAIN steps}
             /\ \A f \in SinkFailures(Len(metrics_cache)) :
                   SendToCloudwatch(config, aws_enabled, metrics_cache, f)
                      = [calls |-> <<>>, result |-> FALSE])

\* the sink was unreachable at construction, and the third cycle completed
\* without a push
C13_Witness ==
    /\ "region" \in DOMAIN config.aws
    /\ ~aws_enabled
    /\ current_time = Some(360)
    /\ cycle_result = "completed"
    /\ steps = <<"collect", "cache", "evaluate">>
    /\ metrics_cache /= <<>>

\* C16: a cycle whose collect returned runs collect, cache write, push (only
\* with the exporter enabled) and evaluation in this order, the cache, the
\* data points pushed and the samples evaluated are those of the batch that
\* collect returned, and the cache changes only in such a cycle; a cycle
\* whose collect raised does nothing else.
C16_CycleOrder ==
    /\ [](cycle_result \in {"completed", "alerts_failed"}
          => /\ steps = IF aws_enabled
                        THEN <<"collect", "cache", "push", "evaluate">>
                        ELSE <<"collect", "cache", "evaluate">>
             /\ metrics_cache = collected.metrics
             /\ push.called = aws_enabled
             /\ \A j \in DOMAIN push.calls : push.calls[j] = GroupOf(j)
             /\ \A i \in DOMAIN alert_log :
                   /\ i <= Len(collected.metrics)
                   /\ alert_log[i].name = collected.metrics[i].name
                   /\ alert_log[i].value = collected.metrics[i].value)
    /\ [][ /\ metrics_cache' /= metrics_cache
              => /\ ~collected'.raised
                 /\ metrics_cache' = collected'.metrics
                 /\ steps'[2] = "cache"
           /\ collected'.raised
              => /\ steps' = <<"collect">>
                 /\ cycle_result' = "collect_failed"
                 /\ UNCHANGED <<metrics_cache, push, alert_log, last_alert_times>>
         ]_vars

\* the second cycle of a process with the exporter enabled: a new batch was
\* cached, pushed in one call and evaluated
C16_Witness ==
    /\ aws_enabled
    /\ current_time = Some(120)
    /\ steps = <<"collect", "cache", "push", "evaluate">>
    /\ metrics_cache = collected.metrics
    /\ Len(push.calls) = 1
    /\ Len(push.calls[1]) = Len(metrics_cache)
    /\ Len(alert_log) = Len(metrics_cache)

\* C17: no failure of a step of an iteration ends the loop of main(): with
\* no stop signal sent, the loop is never left.
C17_LoopNeverLeft == pc /= "crashed"

\* the last answer of do_GET, and whether it was a plain 200
Replied == response /= None
Reply == response[1].reply
Replied200 == Replied /\ Reply.statuses = <<200>>

\* the name normalisation of the specification: lower-cased, every character
\* that is not a letter or a digit replaced by an underscore
Alphanumerics == {SubSeq(Lower \o "0123456789", i, i) : i \in 1..36}

RECURSIVE NormalisedFrom(_, _)
NormalisedFrom(name, i) ==
    IF i > Len(name) THEN ""
    ELSE (IF LowerChar(SubSeq(name, i, i)) \in Alphanumerics
          THEN LowerChar(SubSeq(name, i, i)) ELSE "_")
         \o NormalisedFrom(name, i + 1)

SpecLine(metric) ==
    NormalisedFrom(metric.name, 1) \o Labels(metric.dimensions) \o " "
    \o FloatStr(metric.value) \o " " \o ToString(metric.timestamp * 1000)

RECURSIVE SpecDocument(_, _)
SpecDocument(metrics, i) ==
    IF i > Len(metrics) THEN ""
    ELSE (IF i > 1 THEN "\n" ELSE "") \o SpecLine(metrics[i])
         \o SpecDocument(metrics, i + 1)

\* C14: the document of a batch is one line per sample in batch order,
\* joined by newlines; a line is the name lower-cased with every
\* non-alphanumeric character replaced by an underscore, the label block in
\* insertion order iff the sample has a label, a space, the value, a space
\* and the timestamp in milliseconds.
C14_PrometheusLineFormat ==
    Replied200 => Reply.body = SpecDocument(response[1].batch, 1)

\* C15: rendering is pure.  The empty batch renders to the empty document;
\* the step that renders leaves the cache, the alert suppression state, the
\* exporter switch and the batch it rendered unchanged; and two successive
\* answers that rendered the same batch carry the same body.
C15_RenderingIsPure ==
    /\ [](ExportPrometheusMetrics(<<>>) = "")
    /\ [][response' /= response =>
            /\ metrics_cache' = metrics_cache
            /\ last_alert_times' = last_alert_times
            /\ aws_enabled' = aws_enabled
            /\ response'[1].batch = server.request[1].batch]_vars
    /\ [][(/\ Replied200
           /\ response' /= None
           /\ response'[1].reply.statuses = <<200>>
           /\ response'[1].batch = response[1].batch)
          => response'[1].reply.body = Reply.body]_vars

\* a second request has read the batch the answer before it rendered, with
\* alert suppression state to preserve
C15_Witness ==
    /\ Replied200
    /\ response[1].batch /= <<>>
    /\ server.state = "serving"
    /\ server.request[1].path = "/metrics"
    /\ server.request[1].batch = response[1].batch
    /\ last_alert_times /= <<>>

\* the batches a whole collection can return under the configuration
CompleteBatches ==
    {CollectNetworkMetrics(config, pr).metrics : pr \in ServerProbeChoices(config)}

\* C18: under every interleaving of the scheduler and the requests, a
\* request renders the initial empty batch or exactly one batch a cycle
\* committed: the cache is written by the commit step only and with the
\* whole batch collected, the batch a request holds is not changed by the
\* cycles that run meanwhile, and the body sent is the rendering of it.
C18_ReadersSeeCommittedBatches ==
    /\ [](/\ metrics_cache \in CompleteBatches \cup {<<>>}
          /\ server.request /= None =>
                server.request[1].batch \in CompleteBatches \cup {<<>>}
          /\ Replied200 =>
                /\ response[1].batch \in CompleteBatches \cup {<<>>}
                /\ Reply.body = ExportPrometheusMetrics(response[1].batch))
    /\ [][metrics_cache' /= metrics_cache =>
            /\ pc = "collected"
            /\ pc' = "sleep"
            /\ metrics_cache' = collected.metrics]_vars
    /\ [][(server.request /= None /\ server'.request /= None)
          => server'.request = server.request]_vars
    /\ [][(server.request = None /\ server'.request /= None)
          => server'.request[1].batch \in {metrics_cache, <<>>}]_vars

\* a request holds a committed batch while the next cycle, whose list is
\* half built, has not replaced it
C18_Witness ==
    /\ server.state = "serving"
    /\ server.request[1].path = "/metrics"
    /\ server.request[1].batch /= <<>>
    /\ pc = "collecting"
    /\ collected.metrics /= <<>>
    /\ collected.metrics \notin CompleteBatches

\* C19: every GET request gets exactly one status: 200 with the plain-text
\* content type and the rendering of the cache for /metrics, 404 for any
\* other path, 500 with an empty body when the request fails; and the
\* request leaves the cache and the alert suppression state alone.
C19_OneStatusPerRequest ==
    Replied =>
        /\ Len(Reply.statuses) = 1
        /\ Reply.statuses[1] \in {200, 404, 500}
        /\ Reply.statuses[1] = 404 <=> response[1].path /= "/metrics"
        /\ Reply.statuses[1] = 200 =>
              /\ Reply.content_type = Some(ContentType)
              /\ Reply.body = ExportPrometheusMetrics(response[1].batch)
        /\ Reply.statuses[1] = 500 => Reply.body = ""

\* the clock bound of the model is reached: no later reading is left
ClockExhausted == current_time /= None /\ \A now \in Times : now <= current_time[1]

ServerEnded == server.state \in {"bind_failed", "crashed"}

\* C20: the server never blocks or stops the scheduler.  A step of the
\* server thread changes nothing the scheduler reads or writes; the
\* scheduler, which runs whenever it has a step to take, reaches the end of
\* a cycle again and again in every state of the server; and a batch
\* collected after the server thread has ended is written to the cache.
C20_ServerNeverBlocksScheduler ==
    /\ [][server' /= server =>
            UNCHANGED <<config, aws_enabled, metrics_cache, last_alert_times,
                        pc, probes, collected, current_time, alert_log,
                        cycle_result, push, steps>>]_vars
    /\ []<>(pc = "sleep" \/ ClockExhausted)
    /\ (ServerEnded /\ pc = "collected" /\ ~ClockExhausted)
          ~> (ServerEnded /\ pc = "sleep" /\ metrics_cache = collected.metrics)

\* the server thread has ended with an error and the scheduler is about to
\* write a new batch over the one of an earlier cycle
C20_Witness ==
    /\ server.state \in {"bind_failed", "crashed"}
    /\ pc = "collected"
    /\ metrics_cache /= <<>>
    /\ metrics_cache /= collected.metrics
    /\ ~ClockExhausted

---------------------------------------------------------------------------
(* Properties of start, stop and failure handling *)

\* C22: a configuration that lacks a required key makes the process refuse
\* to start: no monitoring cycle ever runs under it.
C22_MalformedConfigRefused ==
    config \in MalformedConfigs => (cycle_result = "none" /\ steps = <<>>)

\* C21: a stop signal that arrives while an iteration is in flight lets the
\* iteration run to its end before the loop stops: the process never stops
\* with a cycle cut short, e.g. after the cache write and before the alert
\* evaluation.
C21_InFlightCycleCompletes ==
    pc = "stopped" =>
        /\ cycle_result /= "interrupted"
        /\ steps \in {<<>>, <<"collect">>, <<"collect", "cache", "evaluate">>,
                      <<"collect", "cache", "push", "evaluate">>}

\* the last push of the cycle failed
PushFailed == push.called /\ ~push.result

\* C23: a sink failure is confined to its cycle.  A cycle whose push failed
\* has written its batch to the cache, has gone on to the alert evaluation
\* of that batch, leaves the exporter switch alone and leaves exactly the
\* alert state the evaluation of the batch gives; and whatever the sinks
\* did, the cycle is followed by the sleep, and the sleep by the next cycle
\* whenever the interval is configured.
C23_SinkFailureConfined ==
    /\ [](PushFailed =>
            /\ steps = <<"collect", "cache", "push", "evaluate">>
            /\ metrics_cache = collected.metrics
            /\ cycle_result \in {"completed", "alerts_failed"})
    /\ [][(pc = "cycle" /\ push'.called /\ ~push'.result) =>
            /\ aws_enabled' = aws_enabled
            /\ metrics_cache' = collected'.metrics
            /\ \E now \in Times, failing \in FailureChoices :
                  \E a \in {CheckAlerts(config, aws_enabled, last_alert_times,
                                        collected'.metrics, now, failing)} :
                     /\ a.lat = last_alert_times'
                     /\ a.log = alert_log']_vars
    /\ [][pc = "cycle" => pc' = "sleep"]_vars
    /\ [][pc = "sleep" =>
            pc' = IF "ping_check" \in DOMAIN config.intervals THEN "cycle"
                  ELSE "crashed"]_vars

\* the first sink call of the push raised, the mail sink was down, and the
\* batch was evaluated and alerted on all the same
C23_Witness ==
    /\ PushFailed
    /\ push.fails_at = 1
    /\ pc = "sleep"
    /\ \E i \in DOMAIN alert_log :
          /\ Dispatched(alert_log[i])
          /\ alert_log[i].delivered /= {}
          /\ "email" \notin alert_log[i].delivered

\* C24: the suppression key is the metric name alone.  When a latency key
\* dispatched a warning in one evaluation and its sample is critical in the
\* next evaluation, less than the cooldown later, nothing is dispatched for
\* it; and an unreachable sample whose availability key was never alerted is
\* dispatched and recorded although the latency key of the same target is
\* inside its cooldown.
C24_KeyIsMetricName ==
    [][ /\ \A i \in DOMAIN alert_log, j \in DOMAIN alert_log' :
              (/\ current_time' /= current_time
               /\ alert_log[i].name = alert_log'[j].name
               /\ alert_log[i].severity = "warning"
               /\ Dispatched(alert_log[i])
               /\ alert_log'[j].severity = "critical"
               /\ current_time'[1] - current_time[1] < Cooldown)
              => /\ alert_log'[j].gated
                 /\ alert_log'[j].trace = <<>>
                 /\ alert_log'[j].delivered = {}
                 /\ last_alert_times'[alert_log'[j].name] = current_time[1]
        /\ \A t \in TargetNames, j \in DOMAIN alert_log' :
              (/\ current_time' /= current_time
               /\ alert_log'[j].name = "network_availability_" \o t
               /\ alert_log'[j].called
               /\ "network_availability_" \o t \notin DOMAIN last_alert_times
               /\ "network_latency_" \o t \in DOMAIN last_alert_times
               /\ current_time'[1] - last_alert_times["network_latency_" \o t]
                     < Cooldown)
              => /\ ~alert_log'[j].gated
                 /\ alert_log'[j].trace /= <<>>
                 /\ alert_log'[j].trace[1] = "record"
                 /\ last_alert_times'["network_availability_" \o t] = current_time'[1]
                 /\ last_alert_times'["network_latency_" \o t]
                       = last_alert_times["network_latency_" \o t]
      ]_vars

\* a critical latency sample is skipped inside the cooldown of its key, under
\* thresholds that have a warning level below the critical one
C24_Witness ==
    /\ config = BaseConfig
    /\ \E i \in DOMAIN alert_log :
          /\ alert_log[i].name = "network_latency_lan_gateway"
          /\ alert_log[i].severity = "critical"
          /\ alert_log[i].gated
          /\ alert_log[i].before /= None
          /\ Now - alert_log[i].before[1] < Cooldown

\* C25: a push has no retry and no rollback.  When sink call k raises, the
\* calls made are the groups 1..k of the batch, each once and in order (the
\* groups before k were delivered, k was tried once, none after k was
\* tried) and the result is failure; the result is success only when every
\* group was sent and no call raised; and every data point of a push belongs
\* to the batch of its own cycle, never to the batch of an earlier one.
C25_NoRetryNoRollback ==
    push.called =>
        LET n == Len(collected.metrics)
        IN /\ (aws_enabled /\ push.fails_at > 0 /\ "namespace" \in DOMAIN config.aws)
                 => /\ Len(push.calls) = push.fails_at
                    /\ \A j \in 1..push.fails_at : push.calls[j] = GroupOf(j)
                    /\ \A j, k \in DOMAIN push.calls : j /= k => push.calls[j] /= push.calls[k]
                    /\ ~push.result
           /\ push.result
                 => /\ aws_enabled
                    /\ push.fails_at = 0
                    /\ Len(push.calls) = ChunksOf(n)
                    /\ \A j \in DOMAIN push.calls : push.calls[j] = GroupOf(j)
           /\ \A j \in DOMAIN push.calls :
                 \A q \in DOMAIN push.calls[j] :
                    push.calls[j][q].Timestamp = collected.metrics[1].timestamp

\* the second cycle's batch of 45 samples: the second sink call raised, two
\* calls were made and the last five samples were never sent
C25_Witness ==
    /\ push.called
    /\ aws_enabled
    /\ Len(collected.metrics) = 45
    /\ collected.metrics[1].timestamp = 1001
    /\ push.fails_at = 2
    /\ Len(push.calls) = 2
    /\ ~push.result

\* C26: a cycle whose collect raises leaves the cache, and so the document
\* the server answers with, as they were, pushes nothing, evaluates nothing
\* and leaves last_alert_times alone; a cycle whose alert evaluation raises
\* has written its batch to the cache, and has evaluated the samples up to
\* the one that raised and none after it.
C26_FailedCycleEffects ==
    [][ /\ (pc = "cycle" /\ pc' = "sleep" /\ collected'.raised)
              => /\ cycle_result' = "collect_failed"
                 /\ steps' = <<"collect">>
                 /\ metrics_cache' = metrics_cache
                 /\ DoGET("/metrics", metrics_cache', "none")
                       = DoGET("/metrics", metrics_cache, "none")
                 /\ push' = push
                 /\ alert_log' = alert_log
                 /\ current_time' = current_time
                 /\ last_alert_times' = last_alert_times
        /\ (pc = "cycle" /\ pc' = "sleep" /\ cycle_result' = "alerts_failed")
              => /\ ~collected'.raised
                 /\ metrics_cache' = collected'.metrics
                 /\ Len(alert_log') <= Len(collected'.metrics)
                 /\ \A i \in DOMAIN alert_log' :
                       /\ alert_log'[i].name = collected'.metrics[i].name
                       /\ alert_log'[i].raised <=> i = Len(alert_log')
      ]_vars

\* the evaluation raised at a sample that is not the last of the batch: the
\* batch is in the cache and the samples after it have no entry
C26_Witness ==
    /\ cycle_result = "alerts_failed"
    /\ metrics_cache = collected.metrics
    /\ alert_log /= <<>>
    /\ alert_log[Len(alert_log)].raised
    /\ Len(alert_log) < Len(metrics_cache)

====
